---- MODULE Spec2Model ----
(***************************************************************************)
(* A model of StandardsRegistry (src/standards_registry.py): the manifest  *)
(* loader, the data resolver, the record normalizer, the document cache    *)
(* and the query layer (search_records, get_statistics).                   *)
(*                                                                         *)
(* Representation of the Python values:                                    *)
(*   - a str that the code inspects character by character (cell values,   *)
(*     queries) is a sequence of one-character strings;                    *)
(*   - a str that is only compared (ids, dict keys) is a TLA+ string;      *)
(*   - a dict whose key order matters (a record, self.standards) is a      *)
(*     sequence of <<key, value>> pairs with distinct keys, in insertion   *)
(*     order; a dict whose order is never observed (a raw document,        *)
(*     data_cache) is a function on its key set;                           *)
(*   - None is the reserved value None;                                    *)
(*   - a path is the sequence of its components below registry_path, a     *)
(*     file name is the sequence of its tokens (stem pieces, extension).   *)
(***************************************************************************)
EXTENDS Integers, Sequences, FiniteSets, TLC

VARIABLES
    standards,    \* self.standards: ordered dict id -> Standard
    data_cache,   \* self.data_cache: dict id -> raw document
    disk,         \* the files below registry_path: path -> content
    result,       \* the last call: operation, arguments, outcome, returned value
    probed,       \* the paths the last call asked exists() of
    opened,       \* the paths the last call opened
    writes,       \* number of changes made to the disk so far
    norm,         \* the normalizer applied on its own: input document and output
    thr           \* two threads inside load_standard_data: position, locals, outcome

vars == <<standards, data_cache, disk, result, probed, opened, writes, norm, thr>>

----------------------------------------------------------------------------
(* Bounds of the model *)

\* number of changes the environment makes to the files on disk
MaxWrites == 2

\* in the documents given to the normalizer on its own: the length of the
\* fields list and of a positional record
MaxList == 2

\* in the documents given to the normalizer on its own: the number of records
MaxRecs == 2

----------------------------------------------------------------------------
(* Python values *)

None == [None |-> TRUE]

\* cell values of a record: null, int, bool, str
VNone == [t |-> "none"]
VInt(n) == [t |-> "int", n |-> n]
VBool(b) == [t |-> "bool", b |-> b]
VStr(s) == [t |-> "str", s |-> s]

\* bool(v), as used by "if v"
Truthy(v) ==
    CASE v.t = "none" -> FALSE
      [] v.t = "int" -> v.n # 0
      [] v.t = "bool" -> v.b
      [] v.t = "str" -> v.s # <<>>

DigitChar(d) ==
    CASE d = 0 -> "0" [] d = 1 -> "1" [] d = 2 -> "2" [] d = 3 -> "3"
      [] d = 4 -> "4" [] d = 5 -> "5" [] d = 6 -> "6" [] d = 7 -> "7"
      [] d = 8 -> "8" [] d = 9 -> "9"

RECURSIVE Digits(_)
Digits(n) == IF n < 10 THEN <<DigitChar(n)>>
             ELSE Append(Digits(n \div 10), DigitChar(n % 10))

\* str(v)
Str(v) ==
    CASE v.t = "none" -> <<"N", "o", "n", "e">>
      [] v.t = "int" -> IF v.n < 0 THEN <<"-">> \o Digits(0 - v.n) ELSE Digits(v.n)
      [] v.t = "bool" -> IF v.b THEN <<"T", "r", "u", "e">>
                         ELSE <<"F", "a", "l", "s", "e">>
      [] v.t = "str" -> v.s

LowerChar(c) ==
    CASE c = "A" -> "a" [] c = "B" -> "b" [] c = "C" -> "c" [] c = "F" -> "f"
      [] c = "N" -> "n" [] c = "T" -> "t" [] c = "X" -> "x"
      [] OTHER -> c

\* s.lower()
Lower(s) == [i \in 1..Len(s) |-> LowerChar(s[i])]

\* sep.join(strs)
RECURSIVE Join(_, _)
Join(sep, strs) ==
    IF strs = <<>> THEN <<>>
    ELSE IF Len(strs) = 1 THEN strs[1]
    ELSE strs[1] \o sep \o Join(sep, Tail(strs))

\* q in s
Contains(s, q) ==
    \E i \in 0..(Len(s) - Len(q)) : SubSeq(s, i + 1, i + Len(q)) = q

----------------------------------------------------------------------------
(* Ordered dicts: sequences of <<key, value>> pairs *)

DictKeys(d) == [i \in 1..Len(d) |-> d[i][1]]
DictValues(d) == [i \in 1..Len(d) |-> d[i][2]]
DictHas(d, k) == \E i \in 1..Len(d) : d[i][1] = k
DictGet(d, k) == d[CHOOSE i \in 1..Len(d) : d[i][1] = k][2]

\* d[k] = v: an existing key keeps its position, a new key goes last
DictSet(d, k, v) ==
    IF DictHas(d, k)
    THEN [i \in 1..Len(d) |-> IF d[i][1] = k THEN <<k, v>> ELSE d[i]]
    ELSE Append(d, <<k, v>>)

\* zip(a, b): stops at the shorter
Zip(a, b) ==
    LET n == IF Len(a) < Len(b) THEN Len(a) ELSE Len(b)
    IN [i \in 1..n |-> <<a[i], b[i]>>]

\* dict(pairs)
RECURSIVE DictOf(_)
DictOf(pairs) ==
    IF pairs = <<>> THEN <<>>
    ELSE LET n == Len(pairs)
         IN DictSet(DictOf(SubSeq(pairs, 1, n - 1)), pairs[n][1], pairs[n][2])

----------------------------------------------------------------------------
(* Raw documents and the record normalizer *)

HasKey(data, k) == k \in DOMAIN data

\* "not data"
Falsy(data) == data = None \/ DOMAIN data = {}

\* data.get("fields", [])
GetFields(data) == IF HasKey(data, "fields") THEN data.fields ELSE <<>>

get_data_records_flat_first(data) ==
    IF Falsy(data) THEN <<>>
    ELSE IF HasKey(data, "data") THEN data.data
    ELSE IF HasKey(data, "standard") /\ HasKey(data.standard, "data")
    THEN data.standard.data
    ELSE IF HasKey(data, "records")
    THEN LET fs == GetFields(data)
             fields == [i \in 1..Len(fs) |-> fs[i].id]
         IN IF fields = <<>> THEN <<>>
            ELSE [i \in 1..Len(data.records) |-> DictOf(Zip(fields, data.records[i]))]
    ELSE <<>>

get_data_records(data) ==
    IF Falsy(data) THEN <<>>
    ELSE IF HasKey(data, "standard") /\ HasKey(data.standard, "data")
    THEN data.standard.data
    ELSE IF HasKey(data, "data") THEN data.data
    ELSE IF HasKey(data, "records")
    THEN LET fs == GetFields(data)
             fields == [i \in 1..Len(fs) |-> fs[i].id]
         IN IF fields = <<>> THEN <<>>
            ELSE [i \in 1..Len(data.records) |-> DictOf(Zip(fields, data.records[i]))]
    ELSE <<>>

----------------------------------------------------------------------------
(* Paths and files *)

\* registry_path itself
registry_path == <<>>

\* base / rel: pathlib drops the empty components of rel
PathJoin(base, rel) == base \o SelectSeq(rel, LAMBDA c : c # <<>>)

\* p.suffix: the extension of the last component, none for a bare ".yaml"
Suffix(p) ==
    IF p = <<>> THEN ""
    ELSE LET name == p[Len(p)]
         IN IF Len(name) >= 2 /\ name[Len(name)] \in {".yaml", ".json"}
            THEN name[Len(name)] ELSE ""

\* f"20251030_{filename}"
DatePrefixed(filename) == <<"20251030_">> \o filename

\* filename.replace(".yaml", ".json")
ReplaceYamlByJson(filename) ==
    [i \in 1..Len(filename) |-> IF filename[i] = ".yaml" THEN ".json" ELSE filename[i]]

\* what a path holds
Absent == [kind |-> "absent"]
Directory == [kind |-> "dir"]
ParseError == [ok |-> FALSE]
Parsed(doc) == [ok |-> TRUE, doc |-> doc]
\* a regular file: what yaml.safe_load and json.load make of its text
File(yaml, json) == [kind |-> "file", yaml |-> yaml, json |-> json]

\* p.exists()
Exists(dsk, p) == p \in DOMAIN dsk /\ dsk[p].kind # "absent"

\* open(p): only a directory fails, the path was seen to exist
OpenFails(dsk, p) == dsk[p].kind = "dir"

----------------------------------------------------------------------------
(* The manifest and the data files of the model *)

\* the path strings of the manifest, as their "/"-separated components
PathEmpty == << <<>> >>
PathSchoolBoards == << <<"data">>, <<"school_boards", ".yaml">> >>
PathX == << <<"data">>, <<"x", ".yaml">> >>
PathXOld == << <<"old">>, <<"x", ".yaml">> >>

\* registry.yaml: "x" is listed twice, "nopath" has no path key
ManifestDocument ==
    [registry |-> <<
        [id |-> "school_boards", title |-> "School Boards",
         path |-> PathSchoolBoards, tags |-> <<"education">>],
        [id |-> "x", title |-> "X (old)", path |-> PathXOld, version |-> "1"],
        [id |-> "nopath", title |-> "No path"],
        [id |-> "x", title |-> "X", path |-> PathX, version |-> "2",
         source |-> [name |-> "src", url |-> "u"]] >>]

\* the ids the calls are made with; "unknown" is in no manifest
Ids == {"school_boards", "x", "nopath", "unknown"}

\* records: name/n/ok cells
RowA1 == << <<"name", VStr(<<"A", "b">>)>>, <<"n", VInt(0)>> >>
RowA2 == << <<"name", VStr(<<"b">>)>>, <<"n", VInt(7)>>, <<"ok", VBool(FALSE)>> >>

\* flat form, two records
DocA == [data |-> <<RowA1, RowA2>>]

\* columnar form, two records: {name: "aB", n: null}, {name: "", n: 10}
DocB ==
    [fields |-> <<[id |-> "name", type |-> "text"], [id |-> "n", type |-> "int"]>>,
     records |-> << <<VStr(<<"a", "B">>), VNone>>, <<VStr(<<>>), VInt(10)>> >>]

\* columnar form without fields: a non-empty document of zero records
DocZero == [records |-> << <<VInt(1)>> >>]

\* file texts: JSON text is read alike by both parsers; the zero-byte file is
\* an empty YAML document and no JSON; garbage is neither
JsonText(doc) == File(Parsed(doc), Parsed(doc))
ZeroBytes == File(Parsed(None), ParseError)
Garbage == File(ParseError, ParseError)

FileContents ==
    {JsonText(DocA), JsonText(DocB), JsonText(DocZero), ZeroBytes, Garbage}

\* the two fixed candidates of school_boards
SchoolBoardsWithAcronyms ==
    PathJoin(PathJoin(registry_path, << <<"data">> >>),
             << <<"school_boards_with_acronyms", ".json">> >>)
SchoolBoardsDated ==
    PathJoin(PathJoin(registry_path, << <<"data">> >>),
             << <<"20251030_", "school_boards", ".json">> >>)

\* the files the environment creates, rewrites and deletes
DataPaths ==
    {SchoolBoardsWithAcronyms, SchoolBoardsDated,
     << <<"data">>, <<"x", ".yaml">> >>,
     << <<"data">>, <<"20251030_", "x", ".yaml">> >>,
     << <<"data">>, <<"x", ".json">> >>}

\* every path the model keeps track of: registry_path is a directory
Paths == DataPaths \cup {registry_path, << <<"20251030_">> >>}

----------------------------------------------------------------------------
(* Manifest loader *)

\* item.get(k, default)
ItemGet(item, k, default) == IF k \in DOMAIN item THEN item[k] ELSE default

StandardOf(item) ==
    [id |-> ItemGet(item, "id", ""),
     title |-> ItemGet(item, "title", ""),
     description |-> ItemGet(item, "description", ""),
     path |-> ItemGet(item, "path", PathEmpty),
     version |-> ItemGet(item, "version", ""),
     maintainer |-> ItemGet(item, "maintainer", ""),
     last_updated |-> ItemGet(item, "last_updated", ""),
     source |-> ItemGet(item, "source", None),
     tags |-> ItemGet(item, "tags", <<>>)]

RECURSIVE LoadItemsFirstWins(_, _)
LoadItemsFirstWins(items, n) ==
    IF n = 0 THEN <<>>
    ELSE LET standard == StandardOf(items[n])
             before == LoadItemsFirstWins(items, n - 1)
         IN IF DictHas(before, standard.id) THEN before
            ELSE Append(before, <<standard.id, standard>>)

\* the loop of _load_registry over the first n items
RECURSIVE LoadItems(_, _)
LoadItems(items, n) ==
    IF n = 0 THEN <<>>
    ELSE LET standard == StandardOf(items[n])
         IN DictSet(LoadItems(items, n - 1), standard.id, standard)

\* _load_registry: registry_file is Absent or File(...) of the manifest
load_registry(registry_file) ==
    IF registry_file.kind = "absent" THEN <<>>
    ELSE LET registry_data == registry_file.yaml.doc
             items == ItemGet(registry_data, "registry", <<>>)
         IN LoadItems(items, Len(items))

get_standard_or_blank(stds, standard_id) ==
    IF DictHas(stds, standard_id) THEN DictGet(stds, standard_id)
    ELSE StandardOf([id |-> standard_id])

\* self.standards.get(standard_id)
get_standard(stds, standard_id) ==
    IF DictHas(stds, standard_id) THEN DictGet(stds, standard_id) ELSE None

list_standards(stds) == DictValues(stds)

----------------------------------------------------------------------------
(* Data resolver and cache: load_standard_data *)

\* How a call ends: it returns val or raises val, leaves the cache as given,
\* and has probed and opened the given paths.
Returns(val, cache, pr, op) ==
    [out |-> "return", val |-> val, cache |-> cache, probed |-> pr, opened |-> op]
Raises(exc, cache, pr, op) ==
    [out |-> "raise", val |-> [exc |-> exc], cache |-> cache, probed |-> pr, opened |-> op]

\* self.data_cache[standard_id] = data
CacheSet(cache, standard_id, data) ==
    [i \in DOMAIN cache \cup {standard_id} |-> IF i = standard_id THEN data ELSE cache[i]]

InCacheNever(cache, standard_id) == FALSE

\* standard_id in self.data_cache
InCache(cache, standard_id) == standard_id \in DOMAIN cache

ReturnNoneCached(cache, standard_id, pr, op) ==
    Returns(None, CacheSet(cache, standard_id, None), pr, op)

\* return None
ReturnNone(cache, standard_id, pr, op) == Returns(None, cache, pr, op)

json_load_lenient(dsk, p) == IF dsk[p].json.ok THEN dsk[p].json ELSE Parsed(None)

\* json.load(f)
json_load(dsk, p) == dsk[p].json

\* yaml.safe_load(f)
yaml_safe_load(dsk, p) == dsk[p].yaml

json_paths_reversed == <<SchoolBoardsDated, SchoolBoardsWithAcronyms>>

\* the candidates of school_boards, in priority order
json_paths == <<SchoolBoardsWithAcronyms, SchoolBoardsDated>>

NoRecordsNever(records) == FALSE

\* not records
NoRecords(records) == records = <<>>

\* the loop over json_paths, from its i-th candidate on
RECURSIVE TryJsonPaths(_, _, _, _, _, _)
TryJsonPaths(cache, dsk, standard_id, i, pr, op) ==
    IF i > Len(json_paths) THEN ReturnNone(cache, standard_id, pr, op)
    ELSE LET json_path == json_paths[i]
         IN IF ~Exists(dsk, json_path)
            THEN TryJsonPaths(cache, dsk, standard_id, i + 1, pr \cup {json_path}, op)
            ELSE IF OpenFails(dsk, json_path)
            THEN Raises("IsADirectoryError", cache,
                        pr \cup {json_path}, op \cup {json_path})
            ELSE LET parsed == json_load(dsk, json_path)
                 IN IF ~parsed.ok
                    THEN Raises("JSONDecodeError", cache,
                                pr \cup {json_path}, op \cup {json_path})
                    ELSE LET data == parsed.doc
                             records == get_data_records(data)
                         IN IF ~NoRecords(records)
                            THEN Returns(data, CacheSet(cache, standard_id, data),
                                         pr \cup {json_path}, op \cup {json_path})
                            ELSE TryJsonPaths(cache, dsk, standard_id, i + 1,
                                              pr \cup {json_path}, op \cup {json_path})

possible_paths_json_first(standard) ==
    LET path_parts == standard.path
        filename == path_parts[Len(path_parts)]
        dir_path == SubSeq(path_parts, 1, Len(path_parts) - 1)
    IN << PathJoin(PathJoin(registry_path, dir_path), <<ReplaceYamlByJson(filename)>>),
          PathJoin(registry_path, standard.path),
          PathJoin(PathJoin(registry_path, dir_path), <<DatePrefixed(filename)>>) >>

\* the three path variations of a standard, in the order they are tried
possible_paths(standard) ==
    LET path_parts == standard.path
        filename == path_parts[Len(path_parts)]
        dir_path == SubSeq(path_parts, 1, Len(path_parts) - 1)
        data_path == PathJoin(registry_path, standard.path)
    IN << data_path,
          PathJoin(PathJoin(registry_path, dir_path), <<DatePrefixed(filename)>>),
          PathJoin(PathJoin(registry_path, dir_path), <<ReplaceYamlByJson(filename)>>) >>

\* next((p for p in possible_paths if p.exists()), None): the index of the
\* first candidate that exists, 0 when none does
FirstExisting(dsk, paths) ==
    IF \E i \in 1..Len(paths) : Exists(dsk, paths[i])
    THEN CHOOSE i \in 1..Len(paths) :
            Exists(dsk, paths[i]) /\ \A j \in 1..(i - 1) : ~Exists(dsk, paths[j])
    ELSE 0

\* the resolution of every id but school_boards
LoadFromPossiblePaths(cache, dsk, standard, standard_id) ==
    LET paths == possible_paths(standard)
        found == FirstExisting(dsk, paths)
    IN IF found = 0
       THEN ReturnNone(cache, standard_id, {paths[i] : i \in 1..Len(paths)}, {})
       ELSE LET found_path == paths[found]
                pr == {paths[i] : i \in 1..found}
            IN IF OpenFails(dsk, found_path)
               THEN Raises("IsADirectoryError", cache, pr, {found_path})
               ELSE LET parsed == IF Suffix(found_path) = ".yaml"
                                  THEN yaml_safe_load(dsk, found_path)
                                  ELSE json_load(dsk, found_path)
                    IN IF ~parsed.ok
                       THEN Raises(IF Suffix(found_path) = ".yaml"
                                   THEN "YAMLError" ELSE "JSONDecodeError",
                                   cache, pr, {found_path})
                       ELSE LET data == parsed.doc
                            IN IF Falsy(data)
                               THEN ReturnNone(cache, standard_id, pr, {found_path})
                               ELSE IF NoRecords(get_data_records(data))
                               THEN ReturnNone(cache, standard_id, pr, {found_path})
                               ELSE Returns(data, CacheSet(cache, standard_id, data),
                                            pr, {found_path})

load_standard_data(cache, stds, dsk, standard_id) ==
    IF InCache(cache, standard_id)
    THEN Returns(cache[standard_id], cache, {}, {})
    ELSE LET standard == get_standard(stds, standard_id)
         IN IF standard = None
            THEN ReturnNone(cache, standard_id, {}, {})
            ELSE IF standard_id = "school_boards"
            THEN TryJsonPaths(cache, dsk, standard_id, 1, {}, {})
            ELSE LoadFromPossiblePaths(cache, dsk, standard, standard_id)

----------------------------------------------------------------------------
(* Query layer *)

\* " ".join(str(v) for v in r.values() if v).lower()
SearchText(r) ==
    LET kept == SelectSeq(DictValues(r), Truthy)
    IN Lower(Join(<<" ">>, [i \in 1..Len(kept) |-> Str(kept[i])]))

search_records(cache, stds, dsk, standard_id, query) ==
    LET loaded == load_standard_data(cache, stds, dsk, standard_id)
    IN IF loaded.out = "raise" THEN loaded
       ELSE LET data == loaded.val
            IN IF Falsy(data)
               THEN Returns(<<>>, loaded.cache, loaded.probed, loaded.opened)
               ELSE LET records == get_data_records(data)
                        query_lower == Lower(query)
                    IN IF records = <<>>
                       THEN Returns(<<>>, loaded.cache, loaded.probed, loaded.opened)
                       ELSE Returns(SelectSeq(records,
                                        LAMBDA r : Contains(SearchText(r), query_lower)),
                                    loaded.cache, loaded.probed, loaded.opened)

\* {}
EmptyMapping == <<>>

get_statistics(cache, stds, dsk, standard_id) ==
    LET loaded == load_standard_data(cache, stds, dsk, standard_id)
    IN IF loaded.out = "raise" THEN loaded
       ELSE LET data == loaded.val
            IN IF Falsy(data)
               THEN Returns(EmptyMapping, loaded.cache, loaded.probed, loaded.opened)
               ELSE LET records == get_data_records(data)
                    IN IF records = <<>>
                       THEN Returns(EmptyMapping, loaded.cache, loaded.probed, loaded.opened)
                       ELSE Returns([total_records |-> Len(records),
                                     fields |-> DictKeys(records[1])],
                                    loaded.cache, loaded.probed, loaded.opened)

----------------------------------------------------------------------------
(* The registry object, its callers and the files around it *)

\* the queries the searches are made with
Queries ==
    { <<>>, <<"A", "B">>, <<"0">>, <<"n", "a", "m", "e">>, <<"b", " ", "7">> }

\* registry.yaml as the constructor finds it
ManifestFile == File(Parsed(ManifestDocument), ParseError)

EmptyCache == [i \in {} |-> None]

CallRecord(op, standard_id, query, cached, r) ==
    [op |-> op, id |-> standard_id, query |-> query, cached |-> cached,
     out |-> r.out, val |-> r.val]

NormIdle == [doc |-> None, done |-> TRUE, records |-> <<>>]

\* the two threads of the concurrent host
Threads == {1, 2}

\* a thread at position pc of load_standard_data(id): data is its local
\* document, ret what it returned or raised, parsed_at the number of disk
\* changes made before it read the disk (-1: it has not read the disk)
ThreadAt(pc, standard_id) ==
    [pc |-> pc, id |-> standard_id, data |-> None,
     ret |-> [out |-> "none", val |-> None], parsed_at |-> -1]

NoThreads == [t \in Threads |-> ThreadAt("idle", "")]

\* StandardsRegistry(registry_path), on a registry directory without data files
Init ==
    /\ standards = load_registry(ManifestFile)
    /\ data_cache = EmptyCache
    /\ disk = [p \in Paths |-> IF p = registry_path THEN Directory ELSE Absent]
    /\ result = CallRecord("init", "", <<>>, FALSE, Returns(None, EmptyCache, {}, {}))
    /\ probed = {}
    /\ opened = {}
    /\ writes = 0
    /\ norm = NormIdle
    /\ thr = NoThreads

Finish(op, standard_id, query, r) ==
    /\ result' = CallRecord(op, standard_id, query, standard_id \in DOMAIN data_cache, r)
    /\ data_cache' = r.cache
    /\ probed' = r.probed
    /\ opened' = r.opened
    /\ UNCHANGED <<standards, disk, writes, norm, thr>>

GetStandard(standard_id) ==
    Finish("get_standard", standard_id, <<>>,
           Returns(get_standard(standards, standard_id), data_cache, {}, {}))

ListStandards ==
    Finish("list_standards", "", <<>>,
           Returns(list_standards(standards), data_cache, {}, {}))

LoadStandardData(standard_id) ==
    Finish("load_standard_data", standard_id, <<>>,
           load_standard_data(data_cache, standards, disk, standard_id))

SearchRecords(standard_id, query) ==
    Finish("search_records", standard_id, query,
           search_records(data_cache, standards, disk, standard_id, query))

GetStatistics(standard_id) ==
    Finish("get_statistics", standard_id, <<>>,
           get_statistics(data_cache, standards, disk, standard_id))

\* the environment creates, rewrites or deletes a data file
WriteFile(p, content) ==
    /\ writes < MaxWrites
    /\ disk[p] # content
    /\ disk' = [disk EXCEPT ![p] = content]
    /\ writes' = writes + 1
    /\ result' = CallRecord("write", "", <<>>, FALSE, Returns(None, data_cache, {}, {}))
    /\ probed' = {}
    /\ opened' = {}
    /\ UNCHANGED <<standards, data_cache, norm, thr>>

Next ==
    \/ \E standard_id \in Ids : GetStandard(standard_id)
    \/ ListStandards
    \/ \E standard_id \in Ids : LoadStandardData(standard_id)
    \/ \E standard_id \in Ids, query \in Queries : SearchRecords(standard_id, query)
    \/ \E standard_id \in Ids : GetStatistics(standard_id)
    \/ \E p \in DataPaths, content \in FileContents \cup {Absent} : WriteFile(p, content)

Spec == Init /\ [][Next]_vars

----------------------------------------------------------------------------
(* The normalizer on its own: _get_data_records applied to one raw document *)

\* all sequences over S of length at most n
SeqsUpTo(S, n) == UNION {[1..k -> S] : k \in 0..n}

RowS == << <<"k", VStr(<<"s">>)>> >>
RowD == << <<"k", VStr(<<"d">>)>> >>

\* a positional record of n cells
Positional(n) == [i \in 1..n |-> VInt(i)]

\* the values a document may hold under each of the four keys the normalizer reads
KeyValues(k) ==
    CASE k = "standard" ->
            {[title |-> "t"]}
            \cup {[title |-> "t", data |-> l] : l \in SeqsUpTo({RowS}, MaxRecs)}
      [] k = "data" -> SeqsUpTo({RowD}, MaxRecs)
      [] k = "fields" -> SeqsUpTo({[id |-> "a"], [id |-> "b"]}, MaxList)
      [] k = "records" -> SeqsUpTo({Positional(n) : n \in 0..MaxList}, MaxRecs)

\* a key left out, or present with one of its values
Optional(k) ==
    {[present |-> FALSE]} \cup {[present |-> TRUE, v |-> x] : x \in KeyValues(k)}

DocOf(s, d, f, r) ==
    LET chosen == [standard |-> s, data |-> d, fields |-> f, records |-> r]
    IN [k \in {x \in DOMAIN chosen : chosen[x].present} |-> chosen[k].v]

\* None, {} and every mapping with some of the four keys
NormDocs ==
    {None} \cup
    {DocOf(s, d, f, r) : s \in Optional("standard"), d \in Optional("data"),
                         f \in Optional("fields"), r \in Optional("records")}

InitNormalize ==
    /\ standards = load_registry(ManifestFile)
    /\ data_cache = EmptyCache
    /\ disk = [p \in Paths |-> IF p = registry_path THEN Directory ELSE Absent]
    /\ result = CallRecord("init", "", <<>>, FALSE, Returns(None, EmptyCache, {}, {}))
    /\ probed = {}
    /\ opened = {}
    /\ writes = 0
    /\ \E d \in NormDocs : norm = [doc |-> d, done |-> FALSE, records |-> <<>>]
    /\ thr = NoThreads

Normalize ==
    /\ ~norm.done
    /\ norm' = [norm EXCEPT !.done = TRUE, !.records = get_data_records(norm.doc)]
    /\ UNCHANGED <<standards, data_cache, disk, result, probed, opened, writes, thr>>

NextNormalize == Normalize

SpecNormalize == InitNormalize /\ [][NextNormalize]_vars

----------------------------------------------------------------------------
(* Record normalization against its reference *)

\* the shapes of a raw document
IsNested(d) == d # None /\ HasKey(d, "standard") /\ HasKey(d.standard, "data")
IsFlat(d) == d # None /\ HasKey(d, "data")
IsColumnar(d) == d # None /\ HasKey(d, "records")

\* zipping field ids with a positional record: one entry per distinct field id
\* among the first n, n the shorter of the two lengths, placed where the id
\* first occurs and holding the cell of its last occurrence
RefZipped(ids, cells) ==
    LET n == IF Len(ids) < Len(cells) THEN Len(ids) ELSE Len(cells)
        first == SelectSeq([i \in 1..n |-> i],
                           LAMBDA i : \A j \in 1..(i - 1) : ids[j] # ids[i])
        last(i) == CHOOSE j \in 1..n :
                      ids[j] = ids[i] /\ \A m \in (j + 1)..n : ids[m] # ids[i]
    IN [x \in 1..Len(first) |-> <<ids[first[x]], cells[last(first[x])]>>]

RefColumnar(d) ==
    IF ~HasKey(d, "fields") \/ d.fields = <<>> THEN <<>>
    ELSE [i \in 1..Len(d.records) |->
            RefZipped([j \in 1..Len(d.fields) |-> d.fields[j].id], d.records[i])]

RefRecords(d) ==
    CASE IsNested(d) -> d.standard.data
      [] ~IsNested(d) /\ IsFlat(d) -> d.data
      [] ~IsNested(d) /\ ~IsFlat(d) /\ IsColumnar(d) -> RefColumnar(d)
      [] OTHER -> <<>>

----------------------------------------------------------------------------
(* Cache and resolver properties *)

\* the calls that go through load_standard_data
DataCalls == {"load_standard_data", "search_records", "get_statistics"}

\* the id is in the manifest
Known(standard_id) == DictHas(standards, standard_id)

XYaml == << <<"data">>, <<"x", ".yaml">> >>
XDatedYaml == << <<"data">>, <<"20251030_", "x", ".yaml">> >>
XJson == << <<"data">>, <<"x", ".json">> >>

\* what the parser chosen by the extension makes of the file at p
ReadBySuffix(dsk, p) ==
    IF p[Len(p)][Len(p[Len(p)])] = ".yaml" THEN dsk[p].yaml ELSE dsk[p].json

IsFile(dsk, p) == p \in DOMAIN dsk /\ dsk[p].kind = "file"

\* the file at p is there and its parse fails
Malformed(dsk, p) == IsFile(dsk, p) /\ ~ReadBySuffix(dsk, p).ok

\* the file at p is there and parses to a document of at least one record
HasRecords(dsk, p) ==
    /\ IsFile(dsk, p)
    /\ ReadBySuffix(dsk, p).ok
    /\ RefRecords(ReadBySuffix(dsk, p).doc) # <<>>

\* the file at p is there and parses, to an empty document or to zero records
HasNoRecords(dsk, p) ==
    /\ IsFile(dsk, p)
    /\ ReadBySuffix(dsk, p).ok
    /\ RefRecords(ReadBySuffix(dsk, p).doc) = <<>>

\* C1: load-once. A cache entry is never replaced or removed, a load of a
\* cached id returns the cached document whatever the disk holds, and a load
\* that returns a document leaves it in the cache.
C1_LoadOnce ==
    [][ /\ \A id \in DOMAIN data_cache :
              id \in DOMAIN data_cache' /\ data_cache'[id] = data_cache[id]
        /\ (result'.op = "load_standard_data" /\ result'.id \in DOMAIN data_cache)
              => (result'.out = "return" /\ result'.val = data_cache[result'.id])
        /\ (result'.op = "load_standard_data" /\ result'.out = "return"
            /\ result'.val # None)
              => (result'.id \in DOMAIN data_cache'
                  /\ data_cache'[result'.id] = result'.val) ]_vars

\* a load has returned the cached document although the files on disk now
\* resolve to something else
C1_Witness ==
    /\ result.op = "load_standard_data"
    /\ result.cached
    /\ result.out = "return"
    /\ result.val = data_cache[result.id]
    /\ \A p \in DataPaths : ~HasRecords(disk, p) \/ ReadBySuffix(disk, p).doc # result.val
    /\ \E p \in DataPaths : Exists(disk, p)

\* C2: absence is not cached. A load that returns absence leaves the cache
\* as it was, with no entry for the id; and a load of a known id that is not
\* cached reads the disk: when its first candidate file holds records, the
\* load returns that document and caches it.
C2_AbsenceNotCached ==
    [][ result'.op = "load_standard_data" =>
        /\ (result'.out = "return" /\ result'.val = None)
              => (data_cache' = data_cache /\ result'.id \notin DOMAIN data_cache')
        /\ \A p \in {SchoolBoardsWithAcronyms, XYaml} :
              ( /\ result'.id = (IF p = XYaml THEN "x" ELSE "school_boards")
                /\ Known(result'.id)
                /\ result'.id \notin DOMAIN data_cache
                /\ HasRecords(disk, p) )
              => ( /\ result'.out = "return"
                   /\ result'.val = ReadBySuffix(disk, p).doc
                   /\ result'.id \in DOMAIN data_cache'
                   /\ data_cache'[result'.id] = result'.val ) ]_vars

\* a load of a known id found a file, returned absence and cached nothing
C2_Witness ==
    /\ result.op = "load_standard_data"
    /\ Known(result.id)
    /\ result.out = "return"
    /\ result.val = None
    /\ opened # {}
    /\ result.id \notin DOMAIN data_cache

\* the candidate is passed over: it is not there, or it parses to no record
Skipped(dsk, p) == ~Exists(dsk, p) \/ HasNoRecords(dsk, p)

\* C3: school_boards. A load that resolves against the disk returns the
\* document of the first of the two fixed candidates that exists and has at
\* least one record; a first candidate without records is skipped; absence
\* is returned exactly when neither candidate qualifies. (A candidate that
\* cannot be read ends the call in an error: see C9.)
C3_SchoolBoardsFirstWithRecords ==
    (result.op = "load_standard_data" /\ result.id = "school_boards"
     /\ Known(result.id) /\ ~result.cached)
    => LET first == SchoolBoardsWithAcronyms
           second == SchoolBoardsDated
       IN /\ HasRecords(disk, first)
                => (result.out = "return" /\ result.val = disk[first].json.doc)
          /\ (Skipped(disk, first) /\ HasRecords(disk, second))
                => (result.out = "return" /\ result.val = disk[second].json.doc)
          /\ (Skipped(disk, first) /\ Skipped(disk, second))
                => (result.out = "return" /\ result.val = None)
          /\ (result.out = "return" /\ result.val = None)
                => (~HasRecords(disk, first) /\ ~HasRecords(disk, second))
          /\ result.out = "raise"
                => \/ ~HasRecords(disk, first) /\ ~Skipped(disk, first)
                   \/ Skipped(disk, first)
                      /\ ~HasRecords(disk, second) /\ ~Skipped(disk, second)

\* the first candidate exists without records and the second one's document
\* was returned
C3_Witness ==
    /\ result.op = "load_standard_data"
    /\ result.id = "school_boards"
    /\ ~result.cached
    /\ HasNoRecords(disk, SchoolBoardsWithAcronyms)
    /\ HasRecords(disk, SchoolBoardsDated)
    /\ result.val = disk[SchoolBoardsDated].json.doc
    /\ opened = {SchoolBoardsWithAcronyms, SchoolBoardsDated}

\* the three candidates of the ids of the manifest other than school_boards:
\* the manifest path, the date-stamped name, the name with .json for .yaml
RefCandidates(standard_id) ==
    CASE standard_id = "x" -> <<XYaml, XDatedYaml, XJson>>
      [] standard_id = "nopath" -> <<registry_path, << <<"20251030_">> >>, registry_path>>

\* C4: every other manifest id. A load that resolves against the disk picks
\* the first of the three candidates that exists, by existence alone: it
\* probes no later candidate and opens only the picked one; when that file is
\* empty or has zero records the load returns absence, else its document.
C4_FirstExistingCandidate ==
    (result.op = "load_standard_data" /\ Known(result.id)
     /\ result.id # "school_boards" /\ ~result.cached)
    => LET c == RefCandidates(result.id)
           existing == {i \in 1..Len(c) : Exists(disk, c[i])}
       IN IF existing = {}
          THEN /\ result.out = "return" /\ result.val = None
               /\ opened = {}
               /\ probed = {c[i] : i \in 1..Len(c)}
          ELSE LET pick == CHOOSE i \in existing : \A j \in existing : i <= j
               IN /\ opened = {c[pick]}
                  /\ probed = {c[i] : i \in 1..pick}
                  /\ HasRecords(disk, c[pick])
                        => (result.out = "return"
                            /\ result.val = ReadBySuffix(disk, c[pick]).doc)
                  /\ HasNoRecords(disk, c[pick])
                        => (result.out = "return" /\ result.val = None)
                  /\ result.out = "return" <=>
                        (HasRecords(disk, c[pick]) \/ HasNoRecords(disk, c[pick]))

\* the manifest path holds a file without records, a later candidate holds
\* records, and the load returned absence without trying the later one
C4_Witness ==
    /\ result.op = "load_standard_data"
    /\ result.id = "x"
    /\ ~result.cached
    /\ HasNoRecords(disk, XYaml)
    /\ HasRecords(disk, XJson)
    /\ result.out = "return"
    /\ result.val = None
    /\ probed = {XYaml}
    /\ "x" \notin DOMAIN data_cache

----------------------------------------------------------------------------
(* Search properties *)

\* the lower-cased, space-joined text of all non-null values of a record
RefSearchText(r) ==
    LET kept == SelectSeq(DictValues(r), LAMBDA v : v.t # "none")
    IN Lower(Join(<<" ">>, [i \in 1..Len(kept) |-> Str(kept[i])]))

\* C5: a search with a non-empty query returns, in dataset order, exactly
\* the records whose text of all non-null values contains the lower-cased
\* query.
C5_SearchMatchesNonNullValues ==
    (result.op = "search_records" /\ result.query # <<>>
     /\ result.out = "return" /\ result.id \in DOMAIN data_cache)
    => result.val =
          SelectSeq(RefRecords(data_cache[result.id]),
                    LAMBDA r : Contains(RefSearchText(r), Lower(result.query)))

\* C6: a search with the empty query returns an empty result.
C6_EmptyQueryReturnsNothing ==
    (result.op = "search_records" /\ result.query = <<>> /\ result.out = "return")
    => result.val = <<>>

----------------------------------------------------------------------------
(* Error handling properties *)

\* C7: for an id that is not in the manifest, get_standard and
\* load_standard_data return absence, search_records an empty sequence and
\* get_statistics an empty mapping; no call raises, none asks the disk
\* anything, and the cache is left as it was.
C7_UnknownId ==
    [][ (result'.op \in DataCalls \cup {"get_standard"} /\ ~Known(result'.id))
        => /\ result'.out = "return"
           /\ result'.op \in {"get_standard", "load_standard_data"}
                 => result'.val = None
           /\ result'.op = "search_records" => result'.val = <<>>
           /\ result'.op = "get_statistics" => result'.val = EmptyMapping
           /\ probed' = {} /\ opened' = {}
           /\ data_cache' = data_cache ]_vars

\* a query on an unknown id, made on a registry with cached data and files
\* on disk, came back empty
C7_Witness ==
    /\ result.op = "get_statistics"
    /\ ~Known(result.id)
    /\ result.out = "return"
    /\ result.val = EmptyMapping
    /\ data_cache # EmptyCache
    /\ \E p \in DataPaths : Exists(disk, p)

\* C8: for a manifest id none of whose data files is on disk, the three data
\* calls return absence (None, empty sequence, empty mapping) and none
\* raises.
C8_MissingFileIsAbsence ==
    (result.op \in DataCalls /\ Known(result.id) /\ ~result.cached
     /\ \A p \in DataPaths : ~Exists(disk, p))
    => /\ result.out = "return"
       /\ result.op = "load_standard_data" => result.val = None
       /\ result.op = "search_records" => result.val = <<>>
       /\ result.op = "get_statistics" => result.val = EmptyMapping

\* C9: when a file the resolver opened is malformed, the call ends in the
\* parser's error, never in absence, and nothing is cached for the id; a
\* malformed first candidate of school_boards is no fall-through.
C9_MalformedFileRaises ==
    (result.op \in DataCalls /\ \E p \in opened : Malformed(disk, p))
    => /\ result.out = "raise"
       /\ result.val.exc \in {"JSONDecodeError", "YAMLError"}
       /\ result.id \notin DOMAIN data_cache
       /\ \A p \in opened : Malformed(disk, p) \/ HasNoRecords(disk, p)

\* the first candidate of school_boards is malformed, the second holds
\* records, and the search ended in the parse error
C9_Witness ==
    /\ result.op = "search_records"
    /\ result.id = "school_boards"
    /\ opened = {SchoolBoardsWithAcronyms}
    /\ Malformed(disk, SchoolBoardsWithAcronyms)
    /\ HasRecords(disk, SchoolBoardsDated)
    /\ result.out = "raise"
    /\ data_cache = EmptyCache

----------------------------------------------------------------------------
(* Statistics properties *)

\* C11: get_statistics returns the number of normalized records of the
\* loaded document and the keys of its first record, in order; for an id
\* that has no data (nothing to load and no malformed file in the way) it
\* returns an empty mapping and raises no error.
C11_Statistics ==
    result.op = "get_statistics"
    => /\ result.id \in DOMAIN data_cache
             => LET records == RefRecords(data_cache[result.id])
                IN /\ result.out = "return"
                   /\ result.val = [total_records |-> Len(records),
                                    fields |-> [i \in 1..Len(records[1]) |->
                                                   records[1][i][1]]]
       /\ (result.id \notin DOMAIN data_cache
           /\ \A p \in opened : ~Malformed(disk, p))
             => (result.out = "return" /\ result.val = EmptyMapping)

\* C11, the part the code meets: the statistics of a loaded dataset
C11_StatisticsOfLoaded ==
    (result.op = "get_statistics" /\ result.id \in DOMAIN data_cache)
    => LET records == RefRecords(data_cache[result.id])
       IN /\ result.out = "return"
          /\ result.val.total_records = Len(records)
          /\ result.val.fields = DictKeys(records[1])

----------------------------------------------------------------------------
(* Manifest properties *)

ManifestItems == ManifestDocument.registry

\* the last manifest entry that carries the id
LastEntry(standard_id) ==
    ManifestItems[CHOOSE i \in 1..Len(ManifestItems) :
                     /\ ManifestItems[i].id = standard_id
                     /\ \A j \in (i + 1)..Len(ManifestItems) :
                           ManifestItems[j].id # standard_id]

\* the ids of the manifest, each once, in the order they first occur
DistinctIds ==
    LET first == SelectSeq([i \in 1..Len(ManifestItems) |-> i],
                           LAMBDA i : \A j \in 1..(i - 1) :
                                         ManifestItems[j].id # ManifestItems[i].id)
    IN [k \in 1..Len(first) |-> ManifestItems[first[k]].id]

\* C12: get_standard returns the descriptor of the last manifest entry with
\* the id, list_standards one descriptor per distinct id in manifest order,
\* and no operation ever changes the standards.
C12_ManifestLastWinsInOrder ==
    [][ /\ standards' = standards
        /\ (result'.op = "get_standard"
            /\ \E i \in 1..Len(ManifestItems) : ManifestItems[i].id = result'.id)
              => (result'.out = "return"
                  /\ result'.val = StandardOf(LastEntry(result'.id)))
        /\ result'.op = "list_standards"
              => (result'.out = "return"
                  /\ result'.val = [k \in 1..Len(DistinctIds) |->
                                       StandardOf(LastEntry(DistinctIds[k]))]) ]_vars

\* after loads and file changes, list_standards shows the id listed twice
\* once, at the place of its first entry, with the fields of its last entry
C12_Witness ==
    /\ result.op = "list_standards"
    /\ DictKeys(standards) = <<"school_boards", "x", "nopath">>
    /\ [i \in 1..Len(result.val) |-> result.val[i].id] = <<"school_boards", "x", "nopath">>
    /\ result.val[2].title = "X"
    /\ result.val[2].version = "2"
    /\ result.val[2].path = PathX
    /\ result.val[2].source = [name |-> "src", url |-> "u"]
    /\ result.val[1].tags = <<"education">>
    /\ result.val[3].path = PathEmpty
    /\ data_cache # EmptyCache
    /\ writes > 0

----------------------------------------------------------------------------
(* Two threads in load_standard_data for the same id, without a lock *)

\* lines 58-104 without the store: the resolution of an id against the disk
Resolve(stds, dsk, standard_id) ==
    LET standard == get_standard(stds, standard_id)
    IN IF standard = None THEN ReturnNone(EmptyCache, standard_id, {}, {})
       ELSE IF standard_id = "school_boards"
       THEN TryJsonPaths(EmptyCache, dsk, standard_id, 1, {}, {})
       ELSE LoadFromPossiblePaths(EmptyCache, dsk, standard, standard_id)

ThreadStep(t, next) ==
    /\ thr' = [thr EXCEPT ![t] = next]
    /\ UNCHANGED <<standards, disk, result, probed, opened, writes, norm>>

\* if standard_id in self.data_cache: return self.data_cache[standard_id]
ThreadCheckCache(t) ==
    /\ thr[t].pc = "check"
    /\ IF InCache(data_cache, thr[t].id)
       THEN ThreadStep(t, [thr[t] EXCEPT
                !.pc = "done",
                !.ret = [out |-> "return", val |-> data_cache[thr[t].id]]])
       ELSE ThreadStep(t, [thr[t] EXCEPT !.pc = "resolve"])
    /\ UNCHANGED data_cache

\* the candidate files are probed, opened and parsed
ThreadResolve(t) ==
    /\ thr[t].pc = "resolve"
    /\ LET r == Resolve(standards, disk, thr[t].id)
       IN IF r.out = "return" /\ r.val # None
          THEN ThreadStep(t, [thr[t] EXCEPT
                  !.pc = "store", !.data = r.val, !.parsed_at = writes])
          ELSE ThreadStep(t, [thr[t] EXCEPT
                  !.pc = "done", !.ret = [out |-> r.out, val |-> r.val],
                  !.parsed_at = writes])
    /\ UNCHANGED data_cache

ThreadStoreSkipped(t) ==
    /\ thr[t].pc = "store"
    /\ ThreadStep(t, [thr[t] EXCEPT !.pc = "return"])
    /\ UNCHANGED data_cache

\* self.data_cache[standard_id] = data
ThreadStore(t) ==
    /\ thr[t].pc = "store"
    /\ data_cache' = CacheSet(data_cache, thr[t].id, thr[t].data)
    /\ ThreadStep(t, [thr[t] EXCEPT !.pc = "return"])

\* return data
ThreadReturn(t) ==
    /\ thr[t].pc = "return"
    /\ ThreadStep(t, [thr[t] EXCEPT
          !.pc = "done", !.ret = [out |-> "return", val |-> thr[t].data]])
    /\ UNCHANGED data_cache

BothDone == \A t \in Threads : thr[t].pc = "done"

\* a load made after both threads have returned
LaterLoad ==
    /\ BothDone
    /\ LoadStandardData(thr[1].id)

\* both threads are about to call load_standard_data(id) for a manifest id
\* that is not cached
InitRace ==
    /\ standards = load_registry(ManifestFile)
    /\ data_cache = EmptyCache
    /\ disk = [p \in Paths |-> IF p = registry_path THEN Directory ELSE Absent]
    /\ result = CallRecord("init", "", <<>>, FALSE, Returns(None, EmptyCache, {}, {}))
    /\ probed = {}
    /\ opened = {}
    /\ writes = 0
    /\ norm = NormIdle
    /\ \E standard_id \in Ids :
          /\ DictHas(standards, standard_id)
          /\ thr = [t \in Threads |-> ThreadAt("check", standard_id)]

NextRace ==
    \/ \E t \in Threads : ThreadCheckCache(t)
    \/ \E t \in Threads : ThreadResolve(t)
    \/ \E t \in Threads : ThreadStore(t)
    \/ \E t \in Threads : ThreadReturn(t)
    \/ LaterLoad
    \/ \E p \in DataPaths, content \in FileContents \cup {Absent} : WriteFile(p, content)

SpecRace == InitRace /\ [][NextRace]_vars

\* both threads returned a document
BothReturnedDocuments ==
    /\ BothDone
    /\ \A t \in Threads : thr[t].ret.out = "return" /\ thr[t].ret.val # None

\* the race left one document everywhere: both calls returned it, the cache
\* holds it, and a later load returns it
RaceIsBenign ==
    /\ thr[1].ret = thr[2].ret
    /\ thr[1].id \in DOMAIN data_cache
    /\ data_cache[thr[1].id] = thr[1].ret.val
    /\ result.op = "load_standard_data"
          => (result.out = "return" /\ result.val = thr[1].ret.val)

\* no file changed between the two threads' reads of the disk
DiskFixedBetweenParses ==
    (\A t \in Threads : thr[t].parsed_at >= 0) => thr[1].parsed_at = thr[2].parsed_at

\* C13 as stated: the race is benign whether or not a file changes between
\* the two threads' parses.
C13_RaceBenignAlways == BothReturnedDocuments => RaceIsBenign

\* C13 as amended: when no file changes between the two threads' parses,
\* both calls end alike, and when they return a document the cache holds it
\* and every later load returns it.
C13_RaceBenignOnFixedDisk ==
    (BothDone /\ DiskFixedBetweenParses)
    => /\ thr[1].ret = thr[2].ret
       /\ BothReturnedDocuments => RaceIsBenign

\* both threads missed the cache, parsed the same files, stored and returned;
\* a later load, made after the file changed, returned the same document
C13_Witness ==
    /\ BothReturnedDocuments
    /\ \A t \in Threads : thr[t].parsed_at >= 0
    /\ thr[1].parsed_at = thr[2].parsed_at
    /\ RaceIsBenign
    /\ result.op = "load_standard_data"
    /\ writes > thr[1].parsed_at
    /\ Resolve(standards, disk, thr[1].id).val # thr[1].ret.val

----------------------------------------------------------------------------
(* Cache invariant *)

\* the records search_records keeps of a list, as line 133 filters them
Matching(records, query) ==
    SelectSeq(records, LAMBDA r : Contains(SearchText(r), Lower(query)))

\* C14: every key of data_cache is an id of the manifest and every cached
\* document is non-empty and normalizes to at least one record; get_statistics
\* on a cached id returns a count of at least 1, never the empty mapping, and
\* search_records on a cached id returns the filtered records of the cached
\* document, never raising and never taking the no-data branch.
C14_CacheInvariant ==
    /\ \A standard_id \in DOMAIN data_cache :
          /\ Known(standard_id)
          /\ data_cache[standard_id] # None
          /\ DOMAIN data_cache[standard_id] # {}
          /\ Len(RefRecords(data_cache[standard_id])) >= 1
    /\ (result.op = "get_statistics" /\ result.cached)
          => /\ result.out = "return"
             /\ result.val # EmptyMapping
             /\ result.val.total_records >= 1
             /\ result.val.total_records = Len(RefRecords(data_cache[result.id]))
    /\ (result.op = "search_records" /\ result.cached)
          => /\ result.out = "return"
             /\ result.val = Matching(RefRecords(data_cache[result.id]), result.query)

\* statistics were answered from the cache for an id whose files, as they
\* are on disk at the call, give no data
C14_Witness ==
    /\ result.op = "get_statistics"
    /\ result.cached
    /\ result.val.total_records = MaxRecs
    /\ Resolve(standards, disk, result.id).out = "return"
    /\ Resolve(standards, disk, result.id).val = None
    /\ \E p \in DataPaths : disk[p] # Absent

====
